---------------------------- MODULE Spec2Model ----------------------------
(***************************************************************************)
(* A model of the inventory stock analyzer: the data generator             *)
(* (scripts/generate_data.py), the schema loader                           *)
(* (scripts/create_database.py) and the report renderer                    *)
(* (scripts/visualize_results.py).                                         *)
(*                                                                         *)
(* Conventions.                                                            *)
(*  - Dates are whole days counted from today (0 = today, -90 = ninety     *)
(*    days ago); a datetime is a record [day, tod].                        *)
(*  - Money is counted in cents, so quantity * unit_cost is exact.         *)
(*  - A SQL NULL (a pandas NaN) in a numeric column is the value Null.     *)
(*  - Rows carry the columns that the modelled code reads; descriptive     *)
(*    columns (sku, names, warehouse, ...) are left out.                   *)
(***************************************************************************)
EXTENDS Integers, Sequences, FiniteSets

VARIABLES
    \* ---- generate_data.py
    gpc,              \* position of the generator script
    products,         \* the list `products`
    inventory,        \* the list `inventory`
    purchase_orders,  \* the list `purchase_orders`
    product_id,       \* loop variable of the inventory loop
    scenario,         \* last `scenario` draw, in hundredths
    qty,              \* last `qty` drawn by the inventory loop
    \* ---- the files under data/
    csv,              \* file name -> [present, rows]
    \* ---- create_database.py and inventory.db
    lpc,              \* position of the loader script
    lstep,            \* statement within the loader's current section
    db,               \* table name -> [exists, keys, rows]
    indexes,          \* names of the indexes inventory.db holds
    runs,             \* loader runs started so far
    lastLoad,         \* files and tables at the end of the last complete load
    prevLoad,         \* the same for the complete load before it
    \* ---- visualize_results.py
    rpc,              \* position of the renderer script
    df_alerts, df_abc, df_turnover, df_reorder, df_suppliers, summary

genVars == <<gpc, products, inventory, purchase_orders, product_id, scenario, qty>>
loadVars == <<lpc, lstep, db, indexes, runs, lastLoad, prevLoad>>
renderVars == <<rpc, df_alerts, df_abc, df_turnover, df_reorder, df_suppliers, summary>>
vars == <<genVars, csv, loadVars, renderVars>>

(***************************************************************************)
(* Bounds of the model.                                                    *)
(***************************************************************************)
NumProducts == 2     \* products generated (range(150) in the script)
NumOrders == 2       \* purchase orders generated (range(100) in the script)
NumVersions == 2     \* different data sets the files under data/ may hold
MaxRuns == 2         \* runs of the loader
AlertProducts == 2   \* products in the stores of the alerts report
AbcProducts == 3     \* products in the stores of the ABC report
MaxQty == 2          \* largest quantity on hand in the renderer's stores
MaxSales == 2        \* sales of one product in the stores of the reorder report
FreeSuppliers == 2   \* suppliers whose orders vary in the stores of the supplier report

(***************************************************************************)
(* Constants of the program.                                               *)
(***************************************************************************)
WindowDays == 90     \* date('now', '-90 days')
FallbackDays == 30   \* THEN 30
MinOrders == 3       \* HAVING COUNT(*) >= 3
SupplierLimit == 15  \* LIMIT 15

(***************************************************************************)
(* General helpers.                                                        *)
(***************************************************************************)
Null == 0 - 1

Min(a, b) == IF a < b THEN a ELSE b

Tables == {"products", "suppliers", "inventory", "sales_transactions", "purchase_orders"}

NoFile == [present |-> FALSE, rows |-> <<>>]

File(rows) == [present |-> TRUE, rows |-> rows]

NoFiles == [t \in Tables |-> NoFile]

(***************************************************************************)
(* random.randint(a, b): an integer of a..b, or ValueError when the range  *)
(* is empty.  The model draws the two ends of the range.                   *)
(***************************************************************************)
Draws(a, b) == IF a > b THEN {} ELSE {a, b}

(***************************************************************************)
(* random.random() compared with a threshold: the draw in hundredths, one  *)
(* value on each side of every threshold the script tests.                 *)
(***************************************************************************)
ScenarioDraws == {14, 15, 29, 30, 49, 50}

OnTimeDraws == {84, 85}

(***************************************************************************)
(* datetime.now(), .strftime('%Y-%m-%d') and datetime.strptime.            *)
(***************************************************************************)
Now == {[day |-> 0, tod |-> t] : t \in {0, 1}}

AddDays(dt, n) == [day |-> dt.day + n, tod |-> dt.tod]

Strftime(dt) == dt.day

Strptime(s) == [day |-> s, tod |-> 0]

(***************************************************************************)
(* The stores as the other two scripts leave them while one script runs.   *)
(***************************************************************************)
NoKeys == [pk |-> "", fks |-> {}]

NoTable == [exists |-> FALSE, keys |-> NoKeys, rows |-> <<>>]

NoLoad == [done |-> FALSE, files |-> NoFiles, rows |-> [t \in Tables |-> <<>>]]

GeneratorIdle ==
    /\ gpc = "idle"
    /\ products = <<>>
    /\ inventory = <<>>
    /\ purchase_orders = <<>>
    /\ product_id = 0
    /\ scenario = 0
    /\ qty = 0

LoaderIdle ==
    /\ lpc = "idle"
    /\ lstep = 0
    /\ db = [t \in Tables |-> NoTable]
    /\ indexes = {}
    /\ runs = 0
    /\ lastLoad = NoLoad
    /\ prevLoad = NoLoad

RendererIdle ==
    /\ rpc = "idle"
    /\ df_alerts = <<>>
    /\ df_abc = <<>>
    /\ df_turnover = <<>>
    /\ df_reorder = <<>>
    /\ df_suppliers = <<>>
    /\ summary = <<>>

(***************************************************************************)
(* generate_data.py, section 1: the products.                              *)
(***************************************************************************)
SafetyStockDraws == Draws(10, 50)

ReorderPointOffByTen(safety_stock) == Draws(safety_stock, 100)

ReorderPointDraws(safety_stock) == Draws(safety_stock + 10, 100)

ProductRow(i, s, r, sup, lt) ==
    [product_id |-> i + 1, reorder_point |-> r, safety_stock |-> s,
     supplier_id |-> sup, lead_time_days |-> lt]

\* What iteration i of the loop may append.
NewProducts(i) ==
    UNION {{ProductRow(i, s, r, sup, lt) :
                r \in ReorderPointDraws(s), sup \in Draws(1, 20), lt \in Draws(7, 30)} :
           s \in SafetyStockDraws}

GenProduct ==
    /\ gpc = "products"
    /\ Len(products) < NumProducts
    /\ \E s \in SafetyStockDraws :
          IF ReorderPointDraws(s) = {}
          THEN /\ gpc' = "failed"
               /\ UNCHANGED products
          ELSE /\ \E row \in {p \in NewProducts(Len(products)) : p.safety_stock = s} :
                      products' = Append(products, row)
               /\ UNCHANGED gpc
    /\ UNCHANGED <<inventory, purchase_orders, product_id, scenario, qty, csv>>
    /\ UNCHANGED <<loadVars, renderVars>>

WriteProducts ==
    /\ gpc = "products"
    /\ Len(products) = NumProducts
    /\ csv' = [csv EXCEPT !["products"] = File(products)]
    /\ gpc' = "inventory"
    /\ UNCHANGED <<products, inventory, purchase_orders, product_id, scenario, qty>>
    /\ UNCHANGED <<loadVars, renderVars>>

InitProducts ==
    /\ gpc = "products"
    /\ products = <<>>
    /\ inventory = <<>>
    /\ purchase_orders = <<>>
    /\ product_id = 0
    /\ scenario = 0
    /\ qty = 0
    /\ csv = NoFiles
    /\ LoaderIdle
    /\ RendererIdle

NextProducts == GenProduct \/ WriteProducts

SpecProducts == InitProducts /\ [][NextProducts]_vars

(***************************************************************************)
(* The product lists the first loop can leave behind, cut down to the      *)
(* lists whose rows are in Kept (the later loops start from these).        *)
(***************************************************************************)
AnyNewProduct == UNION {NewProducts(i - 1) : i \in 1..NumProducts}

ProductLists(Kept) ==
    LET S(i) == NewProducts(i - 1) \cap Kept
    IN  {l \in [1..NumProducts -> UNION {S(i) : i \in 1..NumProducts}] :
            \A i \in 1..NumProducts : l[i] \in S(i)}

(***************************************************************************)
(* generate_data.py, section 3: the inventory levels.                      *)
(***************************************************************************)
\* df_products[df_products['product_id'] == product_id].iloc[0]
ProductOf(pid) == products[CHOOSE k \in DOMAIN products : products[k].product_id = pid]

\* The if/elif chain on `scenario`: the band, then the range qty is drawn from.
Band(sc) ==
    IF sc < 15 THEN "out_of_stock"
    ELSE IF sc < 30 THEN "below_safety"
    ELSE IF sc < 50 THEN "below_reorder"
    ELSE "healthy"

QtyDraws(sc, product) ==
    IF Band(sc) = "out_of_stock" THEN Draws(0, 5)
    ELSE IF Band(sc) = "below_safety" THEN Draws(1, product.safety_stock)
    ELSE IF Band(sc) = "below_reorder"
         THEN Draws(product.safety_stock, product.reorder_point)
    ELSE Draws(product.reorder_point, product.reorder_point * 3)

ReservedUpToQty(q) == Draws(0, q)

\* random.randint(0, min(10, qty))
ReservedDraws(q) == Draws(0, Min(10, q))

InventoryRow(pid, q, res) ==
    [product_id |-> pid, quantity_on_hand |-> q, reserved_quantity |-> res]

\* The bands whose branch holds the inventory.append call (it is indented
\* into the else branch of the chain).
Appends(sc) == Band(sc) = "healthy"

\* One iteration of the loop: the draw, the append, and the to_csv call, which
\* is inside the loop body.
GenInventory ==
    /\ gpc = "inventory"
    /\ product_id < NumProducts
    /\ product_id' = product_id + 1
    /\ \E sc \in ScenarioDraws :
          LET product == ProductOf(product_id') IN
          /\ scenario' = sc
          /\ IF QtyDraws(sc, product) = {}
             THEN /\ gpc' = "failed"
                  /\ UNCHANGED <<qty, inventory, csv>>
             ELSE /\ \E q \in QtyDraws(sc, product) :
                        /\ qty' = q
                        /\ IF Appends(sc)
                           THEN \E res \in ReservedDraws(q) :
                                   inventory' = Append(inventory, InventoryRow(product_id', q, res))
                           ELSE inventory' = inventory
                  /\ csv' = [csv EXCEPT !["inventory"] = File(inventory')]
                  /\ UNCHANGED gpc
    /\ UNCHANGED <<products, purchase_orders>>
    /\ UNCHANGED <<loadVars, renderVars>>

EndInventory ==
    /\ gpc = "inventory"
    /\ product_id = NumProducts
    /\ gpc' = "orders"
    /\ UNCHANGED <<products, inventory, purchase_orders, product_id, scenario, qty, csv>>
    /\ UNCHANGED <<loadVars, renderVars>>

KeepForInventory == {p \in AnyNewProduct : p.supplier_id = 1 /\ p.lead_time_days = 7}

InitInventory ==
    /\ gpc = "inventory"
    /\ products \in ProductLists(KeepForInventory)
    /\ inventory = <<>>
    /\ purchase_orders = <<>>
    /\ product_id = 0
    /\ scenario = 0
    /\ qty = 0
    /\ csv = [NoFiles EXCEPT !["products"] = File(products)]
    /\ LoaderIdle
    /\ RendererIdle

NextInventory == GenInventory \/ EndInventory

SpecInventory == InitInventory /\ [][NextInventory]_vars

(***************************************************************************)
(* generate_data.py, section 5: the purchase orders.                       *)
(***************************************************************************)
OrderDate(now, back) == Strftime(AddDays(now, 0 - back))

ExpectedWithoutLead(order_date, product) == order_date

ExpectedDelivery(order_date, product) ==
    Strftime(AddDays(Strptime(order_date), product.lead_time_days))

\* `if random.random() < 0.85`: the delays the else branch may add.
DelayDraws(u) == IF u < 85 THEN {0} ELSE Draws(1, 10)

ActualDelivery(expected_delivery, delay) ==
    IF delay = 0 THEN expected_delivery
    ELSE Strftime(AddDays(Strptime(expected_delivery), delay))

OrderRow(i, product, order_date, expected_delivery, actual_delivery) ==
    [po_id |-> i + 1, product_id |-> product.product_id,
     supplier_id |-> product.supplier_id, order_date |-> order_date,
     expected_delivery_date |-> expected_delivery,
     actual_delivery_date |-> actual_delivery, status |-> "Delivered"]

GenOrder ==
    /\ gpc = "orders"
    /\ Len(purchase_orders) < NumOrders
    /\ \E pid \in Draws(1, NumProducts), now \in Now, back \in Draws(0, 180),
          u \in OnTimeDraws :
          \E delay \in DelayDraws(u) :
             LET product == ProductOf(pid)
                 order_date == OrderDate(now, back)
                 expected_delivery == ExpectedDelivery(order_date, product)
             IN  purchase_orders' =
                     Append(purchase_orders,
                            OrderRow(Len(purchase_orders), product, order_date,
                                     expected_delivery,
                                     ActualDelivery(expected_delivery, delay)))
    /\ UNCHANGED <<gpc, products, inventory, product_id, scenario, qty, csv>>
    /\ UNCHANGED <<loadVars, renderVars>>

WriteOrders ==
    /\ gpc = "orders"
    /\ Len(purchase_orders) = NumOrders
    /\ csv' = [csv EXCEPT !["purchase_orders"] = File(purchase_orders)]
    /\ gpc' = "done"
    /\ UNCHANGED <<products, inventory, purchase_orders, product_id, scenario, qty>>
    /\ UNCHANGED <<loadVars, renderVars>>

KeepForOrders == {p \in AnyNewProduct : p.safety_stock = 10 /\ p.reorder_point = 20}

InitOrders ==
    /\ gpc = "orders"
    /\ products \in ProductLists(KeepForOrders)
    /\ inventory = <<>>
    /\ purchase_orders = <<>>
    /\ product_id = NumProducts
    /\ scenario = 0
    /\ qty = 0
    /\ csv = [NoFiles EXCEPT !["products"] = File(products)]
    /\ LoaderIdle
    /\ RendererIdle

NextOrders == GenOrder \/ WriteOrders

SpecOrders == InitOrders /\ [][NextOrders]_vars

(***************************************************************************)
(* The rows of the five files, with the columns the loader and the         *)
(* renderer read.                                                          *)
(***************************************************************************)
Product(id, category, unit_cost, safety_stock, reorder_point, reorder_quantity, supplier) ==
    [product_id |-> id, category |-> category, unit_cost |-> unit_cost,
     reorder_point |-> reorder_point, reorder_quantity |-> reorder_quantity,
     safety_stock |-> safety_stock, supplier_id |-> supplier]

Stock(id, on_hand) == [product_id |-> id, quantity_on_hand |-> on_hand]

Sale(id, date, sold) ==
    [product_id |-> id, transaction_date |-> date, quantity_sold |-> sold]

Order(supplier, expected, actual) ==
    [supplier_id |-> supplier, expected_delivery_date |-> expected,
     actual_delivery_date |-> actual]

Supplier(id) == [supplier_id |-> id]

\* Data set v: v products, each with stock, a sale and a delivered order.
DataSet(v) ==
    [t \in Tables |->
        File(CASE t = "products" ->
                    [k \in 1..v |-> Product(k, "Food", 100 * v, 1, 2, 5, 1)]
               [] t = "suppliers" -> <<Supplier(1)>>
               [] t = "inventory" -> [k \in 1..v |-> Stock(k, k - 1)]
               [] t = "sales_transactions" -> [k \in 1..v |-> Sale(k, 0 - k, v)]
               [] t = "purchase_orders" -> [k \in 1..v |-> Order(1, k, k + v - 1)])]

(***************************************************************************)
(* create_database.py.                                                     *)
(***************************************************************************)
Keys(pk, fks) == [pk |-> pk, fks |-> fks]

\* The five CREATE TABLE IF NOT EXISTS statements, in order: the table each
\* one names and the keys it declares.  The second one, under the comment
\* "Suppliers table", names products.
CreateStatements ==
    << [name |-> "products",
        keys |-> Keys("product_id", {<<"supplier_id", "suppliers">>})],
       [name |-> "products",
        keys |-> Keys("supplier_id", {})],
       [name |-> "inventory",
        keys |-> Keys("product_id", {<<"product_id", "products">>})],
       [name |-> "sales_transactions",
        keys |-> Keys("transaction_id", {<<"product_id", "products">>})],
       [name |-> "purchase_orders",
        keys |-> Keys("po_id", {<<"product_id", "products">>,
                                <<"supplier_id", "suppliers">>})] >>

LoadOrderInventoryFirst ==
    <<"inventory", "products", "suppliers", "sales_transactions", "purchase_orders">>

\* The five read_csv / to_sql pairs, in order.
LoadOrder ==
    <<"products", "suppliers", "inventory", "sales_transactions", "purchase_orders">>

\* The four CREATE INDEX IF NOT EXISTS statements: index name -> table.
IndexTable ==
    [idx \in {"idx_product_category", "idx_inventory_quantity",
              "idx_transaction_date", "idx_transaction_product"} |->
        CASE idx = "idx_product_category" -> "products"
          [] idx = "idx_inventory_quantity" -> "inventory"
          [] OTHER -> "sales_transactions"]

\* CREATE TABLE IF NOT EXISTS
CreateIfNotExists(table, keys) ==
    IF table.exists THEN table ELSE [exists |-> TRUE, keys |-> keys, rows |-> <<>>]

\* pd.read_csv
ReadCsv(file) == file.rows

ToSqlAppend(table, rows) ==
    IF table.exists THEN [table EXCEPT !.rows = @ \o rows]
    ELSE [exists |-> TRUE, keys |-> NoKeys, rows |-> rows]

\* df.to_sql(name, conn, if_exists='replace', index=False): the table is
\* dropped and created again from the frame's columns, with no key, and the
\* frame's rows are inserted.
ToSql(table, rows) == [exists |-> TRUE, keys |-> NoKeys, rows |-> rows]

LoaderRunning == lpc \in {"create", "load", "index", "verify"}

LoaderStart ==
    /\ ~LoaderRunning
    /\ runs < MaxRuns
    /\ runs' = runs + 1
    /\ lpc' = "create"
    /\ lstep' = 1
    /\ UNCHANGED <<db, indexes, lastLoad, prevLoad, csv>>
    /\ UNCHANGED <<genVars, renderVars>>

CreateTable ==
    /\ lpc = "create"
    /\ LET st == CreateStatements[lstep] IN
          db' = [db EXCEPT ![st.name] = CreateIfNotExists(@, st.keys)]
    /\ IF lstep < Len(CreateStatements)
       THEN lstep' = lstep + 1 /\ lpc' = lpc
       ELSE lstep' = 1 /\ lpc' = "load"
    /\ UNCHANGED <<indexes, runs, lastLoad, prevLoad, csv>>
    /\ UNCHANGED <<genVars, renderVars>>

\* One read_csv / to_sql pair.  read_csv raises when the file is absent and
\* the script ends there; dropping a table drops its indexes.
LoadTable ==
    /\ lpc = "load"
    /\ LET t == LoadOrder[lstep] IN
          IF ~csv[t].present
          THEN /\ lpc' = "aborted"
               /\ UNCHANGED <<lstep, db, indexes>>
          ELSE /\ db' = [db EXCEPT ![t] = ToSql(@, ReadCsv(csv[t]))]
               /\ indexes' = {idx \in indexes : IndexTable[idx] # t}
               /\ IF lstep < Len(LoadOrder)
                  THEN lstep' = lstep + 1 /\ lpc' = lpc
                  ELSE lstep' = 1 /\ lpc' = "index"
    /\ UNCHANGED <<runs, lastLoad, prevLoad, csv>>
    /\ UNCHANGED <<genVars, renderVars>>

CreateIndexes ==
    /\ lpc = "index"
    /\ indexes' = DOMAIN IndexTable
    /\ lpc' = "verify"
    /\ UNCHANGED <<lstep, db, runs, lastLoad, prevLoad, csv>>
    /\ UNCHANGED <<genVars, renderVars>>

\* The row counts are read and printed, and the connection is closed.
VerifyAndClose ==
    /\ lpc = "verify"
    /\ lpc' = "done"
    /\ prevLoad' = lastLoad
    /\ lastLoad' = [done |-> TRUE, files |-> csv, rows |-> [t \in Tables |-> db[t].rows]]
    /\ UNCHANGED <<lstep, db, indexes, runs, csv>>
    /\ UNCHANGED <<genVars, renderVars>>

\* Between two runs of the loader the generator may run again and leave
\* another data set under data/ ...
Regenerate ==
    /\ ~LoaderRunning
    /\ \E v \in 1..NumVersions :
          /\ csv # DataSet(v)
          /\ csv' = DataSet(v)
    /\ UNCHANGED <<genVars, loadVars, renderVars>>

\* ... and an input file may be absent when the loader runs.
LoseFile ==
    /\ ~LoaderRunning
    /\ \A t \in Tables : csv[t].present
    /\ \E t \in Tables : csv' = [csv EXCEPT ![t] = NoFile]
    /\ UNCHANGED <<genVars, loadVars, renderVars>>

InitLoad ==
    /\ GeneratorIdle
    /\ csv = DataSet(1)
    /\ LoaderIdle
    /\ RendererIdle

NextLoad ==
    \/ LoaderStart
    \/ CreateTable
    \/ LoadTable
    \/ CreateIndexes
    \/ VerifyAndClose
    \/ Regenerate
    \/ LoseFile

SpecLoad == InitLoad /\ [][NextLoad]_vars

(***************************************************************************)
(* visualize_results.py: the queries.  Each is an operator on the tables   *)
(* T (table name -> rows) the connection reads.                            *)
(*                                                                         *)
(* Arithmetic.  SQLite divides and rounds REAL values; the model keeps the *)
(* exact quotient n / d and rounds it as ROUND does (half away from zero), *)
(* so ROUND(x, 2) is a whole number of hundredths and ROUND(x, 1) of       *)
(* tenths.  An ORDER BY leaves the order of equal keys open: a query that  *)
(* sorts takes the order of its rows as a parameter, and the action draws  *)
(* it from every order the sort allows.                                    *)
(***************************************************************************)
Store == [t \in Tables |-> db[t].rows]

RECURSIVE Sum(_, _)
Sum(f, S) ==
    IF S = {} THEN 0
    ELSE LET x == CHOOSE y \in S : TRUE IN f[x] + Sum(f, S \ {x})

\* ROUND(n / d) for n >= 0, d > 0
RoundDiv(n, d) == (2 * n + d) \div (2 * d)

\* The orders ORDER BY key DESC may give the rows of K, a set of pairs
\* <<key, row>> (a NULL key sorts last).
RECURSIVE SortedDesc(_)
SortedDesc(K) ==
    IF K = {} THEN {<<>>}
    ELSE UNION {{<<m[2]>> \o rest : rest \in SortedDesc(K \ {m})} :
                m \in {x \in K : \A y \in K : x[1] >= y[1]}}

\* FROM products p JOIN inventory i ON p.product_id = i.product_id: pairs of
\* row numbers.
Joined(T) ==
    {j \in (DOMAIN T.products) \X (DOMAIN T.inventory) :
        T.products[j[1]].product_id = T.inventory[j[2]].product_id}

OnHand(T, j) == T.inventory[j[2]].quantity_on_hand

ProductAt(T, j) == T.products[j[1]]

\* i.quantity_on_hand * p.unit_cost
TotalValue(T, j) == OnHand(T, j) * ProductAt(T, j).unit_cost

(***************************************************************************)
(* 1. Stockout alerts.                                                     *)
(***************************************************************************)
AlertLevelAtSafety(on_hand, safety_stock, reorder_point) ==
    IF on_hand = 0 THEN "CRITICAL - Out of Stock"
    ELSE IF on_hand <= safety_stock THEN "URGENT - Below Safety"
    ELSE IF on_hand < reorder_point THEN "WARNING - Below Reorder"
    ELSE "OK"

\* The CASE of the query.
AlertLevel(on_hand, safety_stock, reorder_point) ==
    IF on_hand = 0 THEN "CRITICAL - Out of Stock"
    ELSE IF on_hand < safety_stock THEN "URGENT - Below Safety"
    ELSE IF on_hand < reorder_point THEN "WARNING - Below Reorder"
    ELSE "OK"

\* ORDER BY CASE alert_level ...
AlertOrder ==
    <<"CRITICAL - Out of Stock", "URGENT - Below Safety", "WARNING - Below Reorder", "OK">>

AlertsQuery(T) ==
    LET level(j) == AlertLevel(OnHand(T, j), ProductAt(T, j).safety_stock,
                               ProductAt(T, j).reorder_point)
        count(l) == Cardinality({j \in Joined(T) : level(j) = l})
        Counted(l) == count(l) > 0
        groups == SelectSeq(AlertOrder, Counted)
    IN  [k \in DOMAIN groups |->
            [alert_level |-> groups[k], product_count |-> count(groups[k])]]

(***************************************************************************)
(* 2. ABC analysis.                                                        *)
(***************************************************************************)
\* SUM(total_value) OVER ()
GrandTotal(T) == Sum([j \in Joined(T) |-> TotalValue(T, j)], Joined(T))

\* The orders of ORDER BY total_value DESC.
AbcRankings(T) == SortedDesc({<<TotalValue(T, j), j>> : j \in Joined(T)})

ValueOfRowAlone(T, ranking, k) == TotalValue(T, ranking[k])

\* SUM(total_value) OVER (ORDER BY total_value DESC ROWS BETWEEN UNBOUNDED
\* PRECEDING AND CURRENT ROW), at row k of the ranking.
CumulativeValue(T, ranking, k) ==
    Sum([n \in 1..k |-> TotalValue(T, ranking[n])], 1..k)

AbcLabelBelow(cumulative_value, grand_total) ==
    IF grand_total = 0 THEN "C"
    ELSE IF 100 * cumulative_value < 80 * grand_total THEN "A"
    ELSE IF 100 * cumulative_value < 95 * grand_total THEN "B"
    ELSE "C"

\* The CASE of the query; with a grand total of 0 the quotient is NULL, no
\* WHEN holds and the ELSE gives 'C'.
AbcLabel(cumulative_value, grand_total) ==
    IF grand_total = 0 THEN "C"
    ELSE IF 100 * cumulative_value <= 80 * grand_total THEN "A"
    ELSE IF 100 * cumulative_value <= 95 * grand_total THEN "B"
    ELSE "C"

\* ROUND(100.0 * cumulative_value / grand_total, 2), in hundredths
CumulativePct(cumulative_value, grand_total) ==
    IF grand_total = 0 THEN Null ELSE RoundDiv(10000 * cumulative_value, grand_total)

AbcQuery(T, ranking) ==
    [k \in DOMAIN ranking |->
        [product_id |-> ProductAt(T, ranking[k]).product_id,
         inventory_value |-> TotalValue(T, ranking[k]),
         cumulative_pct |-> CumulativePct(CumulativeValue(T, ranking, k), GrandTotal(T)),
         abc_category |-> AbcLabel(CumulativeValue(T, ranking, k), GrandTotal(T))]]

(***************************************************************************)
(* 3. Inventory turnover by category.                                      *)
(***************************************************************************)
\* FROM sales_transactions st JOIN products p ON st.product_id = p.product_id
SalesJoined(T) ==
    {j \in (DOMAIN T.sales_transactions) \X (DOMAIN T.products) :
        T.sales_transactions[j[1]].product_id = T.products[j[2]].product_id}

\* sales_summary.cogs of category c
Cogs(T, c) ==
    LET S == {j \in SalesJoined(T) : T.products[j[2]].category = c}
    IN  Sum([j \in S |-> T.sales_transactions[j[1]].quantity_sold
                            * T.products[j[2]].unit_cost], S)

\* inventory_summary.avg_inventory_value of category c
InventoryValue(T, c) ==
    LET S == {j \in Joined(T) : ProductAt(T, j).category = c}
    IN  Sum([j \in S |-> TotalValue(T, j)], S)

\* FROM sales_summary s JOIN inventory_summary inv ON s.category = inv.category
TurnoverCategories(T) ==
    {T.products[j[2]].category : j \in SalesJoined(T)}
        \cap {ProductAt(T, j).category : j \in Joined(T)}

\* ROUND(s.cogs / NULLIF(inv.avg_inventory_value, 0), 2), in hundredths
TurnoverRatio(cogs, inventory_value) ==
    IF inventory_value = 0 THEN Null ELSE RoundDiv(100 * cogs, inventory_value)

\* ROUND(365.0 / NULLIF(s.cogs / NULLIF(inv.avg_inventory_value, 0), 0), 0)
DaysInventory(cogs, inventory_value) ==
    IF inventory_value = 0 \/ cogs = 0 THEN Null
    ELSE RoundDiv(365 * inventory_value, cogs)

TurnoverRow(T, c) ==
    [category |-> c,
     turnover_ratio |-> TurnoverRatio(Cogs(T, c), InventoryValue(T, c)),
     days_inventory |-> DaysInventory(Cogs(T, c), InventoryValue(T, c))]

\* The orders of ORDER BY turnover_ratio DESC.
TurnoverOrders(T) ==
    SortedDesc({<<TurnoverRow(T, c).turnover_ratio, c>> : c \in TurnoverCategories(T)})

TurnoverQuery(T, order) == [k \in DOMAIN order |-> TurnoverRow(T, order[k])]

\* The value labels of the two charts: f'{v:2f}x' takes a NaN, int(v) raises
\* ValueError on one; a column that is NULL in every row reaches the chart as
\* None and fails in the first chart already.
TurnoverChartFails(df) == \E k \in DOMAIN df : df[k].days_inventory = Null

(***************************************************************************)
(* 4. Reorder priority.                                                    *)
(***************************************************************************)
\* A sum of fractions <<n, d>>, as a fraction.
RECURSIVE FractionSum(_, _)
FractionSum(f, S) ==
    IF S = {} THEN <<0, 1>>
    ELSE LET x == CHOOSE y \in S : TRUE
             r == FractionSum(f, S \ {x})
         IN  <<f[x][1] * r[2] + r[1] * f[x][2], f[x][2] * r[2]>>

\* The rows of sales_transactions that daily_sales groups for product pid:
\* WHERE transaction_date >= date('now', '-90 days')
WindowSales(T, pid) ==
    {k \in DOMAIN T.sales_transactions :
        /\ T.sales_transactions[k].product_id = pid
        /\ T.sales_transactions[k].transaction_date >= 0 - WindowDays}

UnitsSold(T, W) == Sum([k \in W |-> T.sales_transactions[k].quantity_sold], W)

\* The CASE inside AVG, as a fraction: avg_daily_sales is
\* AVG(quantity_sold), the units sold in the window over the number of its
\* sales rows.
DaysRemaining(T, j) ==
    LET W == WindowSales(T, ProductAt(T, j).product_id)
    IN  IF W = {} \/ UnitsSold(T, W) = 0 THEN <<FallbackDays, 1>>
        ELSE <<OnHand(T, j) * Cardinality(W), UnitsSold(T, W)>>

\* WHERE i.quantity_on_hand < p.reorder_point
NeedsReorder(T) == {j \in Joined(T) : OnHand(T, j) < ProductAt(T, j).reorder_point}

ReorderCategories(T) == {ProductAt(T, j).category : j \in NeedsReorder(T)}

\* ROUND(AVG(days), 1) over the rows S, in tenths
AvgTenths(days, S) ==
    LET total == FractionSum(days, S)
    IN  RoundDiv(10 * total[1], total[2] * Cardinality(S))

ReorderRow(T, c) ==
    LET S == {j \in NeedsReorder(T) : ProductAt(T, j).category = c}
    IN  [category |-> c,
         products_needing_reorder |-> Cardinality(S),
         total_reorder_cost |->
             Sum([j \in S |-> ProductAt(T, j).reorder_quantity * ProductAt(T, j).unit_cost], S),
         avg_days_remaining |-> AvgTenths([j \in S |-> DaysRemaining(T, j)], S)]

\* The orders of ORDER BY products_needing_reorder DESC.
ReorderOrders(T) ==
    SortedDesc({<<ReorderRow(T, c).products_needing_reorder, c>> :
                   c \in ReorderCategories(T)})

ReorderQuery(T, order) == [k \in DOMAIN order |-> ReorderRow(T, order[k])]

(***************************************************************************)
(* 5. Supplier performance.  A supplier is a row number of suppliers.      *)
(***************************************************************************)
\* The rows the LEFT JOIN gives supplier s.
SupplierOrders(T, s) ==
    {k \in DOMAIN T.purchase_orders :
        T.purchase_orders[k].supplier_id = T.suppliers[s].supplier_id}

\* COUNT(*): a supplier without orders keeps one row, of NULLs.
TotalOrders(T, s) ==
    IF SupplierOrders(T, s) = {} THEN 1 ELSE Cardinality(SupplierOrders(T, s))

\* SUM(CASE WHEN po.actual_delivery_date <= po.expected_delivery_date ...)
OnTimeOrders(T, s) ==
    Cardinality({k \in SupplierOrders(T, s) :
        T.purchase_orders[k].actual_delivery_date
            <= T.purchase_orders[k].expected_delivery_date})

\* ROUND(100.0 * ... / COUNT(*), 2), in hundredths
OnTimePct(T, s) == RoundDiv(10000 * OnTimeOrders(T, s), TotalOrders(T, s))

ListedAboveThree(T) == {s \in DOMAIN T.suppliers : TotalOrders(T, s) > MinOrders}

\* HAVING COUNT(*) >= 3
Listed(T) == {s \in DOMAIN T.suppliers : TotalOrders(T, s) >= MinOrders}

\* The orders of ORDER BY on_time_pct DESC.
SupplierRankings(T) == SortedDesc({<<OnTimePct(T, s), s>> : s \in Listed(T)})

\* ... LIMIT 15
SupplierQuery(T, ranking) ==
    [k \in 1..Min(Len(ranking), SupplierLimit) |->
        [supplier_id |-> T.suppliers[ranking[k]].supplier_id,
         on_time_pct |-> OnTimePct(T, ranking[k]),
         total_orders |-> TotalOrders(T, ranking[k])]]

(***************************************************************************)
(* Summary statistics.  With no product in stock the sums are NULL.        *)
(***************************************************************************)
SlowMoving(T) ==
    {j \in Joined(T) :
        /\ UnitsSold(T, WindowSales(T, ProductAt(T, j).product_id)) < 5
        /\ OnHand(T, j) > 0}

SummaryQuery(T) ==
    [total_products |-> Len(T.products),
     total_value |-> IF Joined(T) = {} THEN Null ELSE GrandTotal(T),
     out_of_stock |-> Cardinality({j \in Joined(T) : OnHand(T, j) = 0}),
     needs_reorder |-> Cardinality(NeedsReorder(T)),
     reorder_cost |->
         Sum([j \in NeedsReorder(T) |->
                 ProductAt(T, j).reorder_quantity * ProductAt(T, j).unit_cost],
             NeedsReorder(T)),
     slow_value |-> Sum([j \in SlowMoving(T) |-> TotalValue(T, j)], SlowMoving(T))]

(***************************************************************************)
(* visualize_results.py: the script.  Each step reads the store through    *)
(* the connection and keeps its result; the charts go to files under       *)
(* results/.                                                               *)
(***************************************************************************)
RenderAlerts ==
    /\ rpc = "alerts"
    /\ df_alerts' = AlertsQuery(Store)
    /\ rpc' = "abc"
    /\ UNCHANGED <<df_abc, df_turnover, df_reorder, df_suppliers, summary>>
    /\ UNCHANGED <<genVars, csv, loadVars>>

RenderAbcWritingBack ==
    /\ rpc = "abc"
    /\ \E ranking \in AbcRankings(Store) :
          /\ df_abc' = AbcQuery(Store, ranking)
          /\ db' = [db EXCEPT !["products"].rows =
                       [k \in DOMAIN db["products"].rows |->
                           [db["products"].rows[k] EXCEPT
                               !.category = df_abc'[1].abc_category]]]
    /\ rpc' = "turnover"
    /\ UNCHANGED <<df_alerts, df_turnover, df_reorder, df_suppliers, summary>>
    /\ UNCHANGED <<genVars, csv, lpc, lstep, indexes, runs, lastLoad, prevLoad>>

\* pd.read_sql of the ABC query, its printout and its charts.
RenderAbc ==
    /\ rpc = "abc"
    /\ \E ranking \in AbcRankings(Store) : df_abc' = AbcQuery(Store, ranking)
    /\ rpc' = "turnover"
    /\ UNCHANGED <<df_alerts, df_turnover, df_reorder, df_suppliers, summary>>
    /\ UNCHANGED <<genVars, csv, loadVars>>

QueryTurnover ==
    /\ rpc = "turnover"
    /\ \E order \in TurnoverOrders(Store) : df_turnover' = TurnoverQuery(Store, order)
    /\ rpc' = "turnover_chart"
    /\ UNCHANGED <<df_alerts, df_abc, df_reorder, df_suppliers, summary>>
    /\ UNCHANGED <<genVars, csv, loadVars>>

\* The two bar charts and their value labels; an exception ends the script.
ChartTurnover ==
    /\ rpc = "turnover_chart"
    /\ rpc' = IF TurnoverChartFails(df_turnover) THEN "failed" ELSE "reorder"
    /\ UNCHANGED <<df_alerts, df_abc, df_turnover, df_reorder, df_suppliers, summary>>
    /\ UNCHANGED <<genVars, csv, loadVars>>

RenderReorder ==
    /\ rpc = "reorder"
    /\ \E order \in ReorderOrders(Store) : df_reorder' = ReorderQuery(Store, order)
    /\ rpc' = "suppliers"
    /\ UNCHANGED <<df_alerts, df_abc, df_turnover, df_suppliers, summary>>
    /\ UNCHANGED <<genVars, csv, loadVars>>

RenderSuppliers ==
    /\ rpc = "suppliers"
    /\ \E ranking \in SupplierRankings(Store) :
          df_suppliers' = SupplierQuery(Store, ranking)
    /\ rpc' = "summary"
    /\ UNCHANGED <<df_alerts, df_abc, df_turnover, df_reorder, summary>>
    /\ UNCHANGED <<genVars, csv, loadVars>>

PrintSummary ==
    /\ rpc = "summary"
    /\ summary' = SummaryQuery(Store)
    /\ rpc' = "close"
    /\ UNCHANGED <<df_alerts, df_abc, df_turnover, df_reorder, df_suppliers>>
    /\ UNCHANGED <<genVars, csv, loadVars>>

Close ==
    /\ rpc = "close"
    /\ rpc' = "closed"
    /\ UNCHANGED <<df_alerts, df_abc, df_turnover, df_reorder, df_suppliers, summary>>
    /\ UNCHANGED <<genVars, csv, loadVars>>

NextRender ==
    \/ RenderAlerts
    \/ RenderAbc
    \/ QueryTurnover
    \/ ChartTurnover
    \/ RenderReorder
    \/ RenderSuppliers
    \/ PrintSummary
    \/ Close

(***************************************************************************)
(* The stores the renderer is run on: what a complete load leaves, for     *)
(* files of the given rows.  Every store holds stock of some value.        *)
(***************************************************************************)
StoreOf(P, I, S, O, U) ==
    [products |-> P, inventory |-> I, sales_transactions |-> S,
     purchase_orders |-> O, suppliers |-> U]

Loaded(T) == [t \in Tables |-> ToSql(NoTable, T[t])]

InitRender(Stores) ==
    /\ GeneratorIdle
    /\ csv = NoFiles
    /\ lpc = "done"
    /\ lstep = 1
    /\ \E T \in Stores : GrandTotal(T) > 0 /\ db = Loaded(T)
    /\ indexes = DOMAIN IndexTable
    /\ runs = 1
    /\ lastLoad = NoLoad
    /\ prevLoad = NoLoad
    /\ rpc = "alerts"
    /\ df_alerts = <<>>
    /\ df_abc = <<>>
    /\ df_turnover = <<>>
    /\ df_reorder = <<>>
    /\ df_suppliers = <<>>
    /\ summary = <<>>

\* Alerts: every pair of thresholds against every quantity; the last product
\* may lack its inventory row.
Thresholds == {<<1, 2>>, <<2, 2>>, <<0, 1>>, <<2, 1>>}

AlertStores(N, Q) ==
    UNION {{StoreOf([k \in 1..n |-> Product(k, "Food", 100, th[k][1], th[k][2], 5, 1)],
                    [k \in 1..m |-> Stock(k, q[k])],
                    <<>>, <<>>, <<Supplier(1)>>) :
               th \in [1..n -> Thresholds], q \in [1..n -> 0..Q], m \in {n - 1, n}} :
           n \in 1..N}

InitAlerts == InitRender(AlertStores(AlertProducts, MaxQty))

SpecAlerts == InitAlerts /\ [][NextRender]_vars

\* ABC: products of three unit costs, none to two units of each on hand.
AbcCosts == {50, 150, 800}

AbcQuantities == {0, 1, 2}

AbcStores(N) ==
    UNION {{StoreOf([k \in 1..n |-> Product(k, "Food", cost[k], 1, 2, 5, 1)],
                    [k \in 1..n |-> Stock(k, q[k])],
                    <<>>, <<>>, <<Supplier(1)>>) :
               cost \in [1..n -> AbcCosts], q \in [1..n -> AbcQuantities]} :
           n \in 1..N}

InitAbc == InitRender(AbcStores(AbcProducts))

SpecAbc == InitAbc /\ [][NextRender]_vars

\* Turnover: two products of one category or of two, each with at most one
\* sale.
SoldQuantities == {0, 1, 4}

SaleChoices(id) == {<<>>} \cup {<<Sale(id, 0, sold)>> : sold \in SoldQuantities}

TurnoverStores(Q) ==
    {StoreOf(<<Product(1, "Food", 100, 1, 2, 5, 1), Product(2, c, 100, 1, 2, 5, 1)>>,
             <<Stock(1, q[1]), Stock(2, q[2])>>,
             s1 \o s2, <<>>, <<Supplier(1)>>) :
        c \in {"Food", "Sports"}, q \in [1..2 -> 0..Q],
        s1 \in SaleChoices(1), s2 \in SaleChoices(2)}

InitTurnover == InitRender(TurnoverStores(MaxQty))

SpecTurnover == InitTurnover /\ [][NextRender]_vars

\* Reorder: two products with reorder point 2; sales on both sides of the
\* 90-day window.
WindowSale(id) ==
    {Sale(id, date, sold) : date \in {0 - WindowDays - 1, 0 - WindowDays}, sold \in {1, 2}}

SalesUpTo(id, n) == UNION {[1..k -> WindowSale(id)] : k \in 0..n}

ReorderStores(Q, M) ==
    {StoreOf(<<Product(1, "Food", 100, 1, 2, 5, 1), Product(2, c, 100, 1, 2, 5, 1)>>,
             <<Stock(1, q[1]), Stock(2, q[2])>>,
             s1 \o s2, <<>>, <<Supplier(1)>>) :
        c \in {"Food", "Sports"}, q \in [1..2 -> 0..Q],
        s1 \in SalesUpTo(1, M), s2 \in SalesUpTo(2, 1)}

InitReorder == InitRender(ReorderStores(MaxQty, MaxSales))

SpecReorder == InitReorder /\ [][NextRender]_vars

\* Suppliers: fourteen suppliers with fixed orders (orders, orders on time), of
\* fourteen different percentages, and a few suppliers whose orders vary.
FixedSuppliers ==
    << <<3, 0>>, <<3, 1>>, <<3, 2>>, <<3, 3>>, <<4, 1>>, <<4, 3>>, <<5, 1>>,
       <<5, 2>>, <<5, 3>>, <<5, 4>>, <<6, 1>>, <<6, 5>>, <<7, 1>>, <<7, 2>> >>

\* n orders of supplier s, the first `on` of them delivered on the expected
\* day and the rest a day late.
OrdersOf(s, n, on) == [k \in 1..n |-> Order(s, 10, IF k <= on THEN 10 ELSE 11)]

RECURSIVE Concat(_, _)
Concat(f, n) == IF n = 0 THEN <<>> ELSE Concat(f, n - 1) \o f[n]

\* The orders of such a supplier: none, or one fewer than HAVING asks for, or
\* just as many; any number of them on time.
OrderCounts == {0, MinOrders - 1, MinOrders}

FreeOrders == {c \in OrderCounts \X (0..MinOrders) : c[2] <= c[1]}

SupplierStores(Free) ==
    LET F == Len(FixedSuppliers)
        N == F + Free
    IN  {StoreOf(<<Product(1, "Food", 100, 1, 2, 5, 1)>>, <<Stock(1, 1)>>, <<>>,
                 Concat([s \in 1..N |->
                            IF s <= F
                            THEN OrdersOf(s, FixedSuppliers[s][1], FixedSuppliers[s][2])
                            ELSE OrdersOf(s, free[s - F][1], free[s - F][2])], N),
                 [s \in 1..N |-> Supplier(s)]) :
            free \in [1..Free -> FreeOrders]}

InitSuppliers == InitRender(SupplierStores(FreeSuppliers))

SpecSuppliers == InitSuppliers /\ [][NextRender]_vars

(***************************************************************************)
(* Properties of the generator.                                            *)
(***************************************************************************)
FileRows(name) == csv[name].rows

\* C1: the generator produces exactly one inventory record for every product
\* the loop has passed, whichever band the scenario draw fell into, and the
\* inventory file it leaves is one-to-one with the products file.
GenOneInventoryPerProduct ==
    /\ \A p \in 1..product_id :
          Cardinality({k \in DOMAIN inventory : inventory[k].product_id = p}) = 1
    /\ gpc = "orders" =>
          /\ csv["inventory"].present
          /\ Len(FileRows("inventory")) = Len(FileRows("products"))
          /\ \A k \in DOMAIN FileRows("products") :
                FileRows("inventory")[k].product_id = FileRows("products")[k].product_id

StatusReflectsDelay(po) == po.status # "Delivered"

OrderedProduct(po) == ProductOf(po.product_id)

\* C9 as stated: expected = order date + lead time; an order whose status
\* reflects a delay is delivered 1 to 10 days after the expected date, and every
\* other order exactly on the expected date.
GenDeliveryDatesByStatus ==
    \A k \in DOMAIN purchase_orders :
        LET po == purchase_orders[k] IN
        /\ po.expected_delivery_date = po.order_date + OrderedProduct(po).lead_time_days
        /\ IF StatusReflectsDelay(po)
           THEN po.actual_delivery_date - po.expected_delivery_date \in 1..10
           ELSE po.actual_delivery_date = po.expected_delivery_date

\* C9 as amended: expected = order date + lead time; the actual date is the
\* expected date or 1 to 10 days after it; the status is 'Delivered' in both
\* cases, so it does not tell a delayed order from one on time.
GenDeliveryDates ==
    /\ \A k \in DOMAIN purchase_orders :
          LET po == purchase_orders[k] IN
          /\ po.expected_delivery_date = po.order_date + OrderedProduct(po).lead_time_days
          /\ po.actual_delivery_date - po.expected_delivery_date \in 0..10
          /\ po.status = "Delivered"
    /\ gpc = "done" => FileRows("purchase_orders") = purchase_orders

GenDeliveryDatesWitness ==
    /\ gpc = "done"
    /\ \E k \in DOMAIN purchase_orders :
          purchase_orders[k].actual_delivery_date
              = purchase_orders[k].expected_delivery_date + 10
    /\ \E k \in DOMAIN purchase_orders :
          /\ purchase_orders[k].actual_delivery_date
                = purchase_orders[k].expected_delivery_date
          /\ OrderedProduct(purchase_orders[k]).lead_time_days = 30

\* C10: every generated product has safety_stock < reorder_point, with
\* safety_stock in 10..50 and reorder_point in safety_stock+10..100; no draw
\* finds its range empty.
GenSafetyBelowReorder ==
    /\ gpc # "failed"
    /\ \A k \in DOMAIN products :
          /\ products[k].safety_stock \in 10..50
          /\ products[k].reorder_point \in (products[k].safety_stock + 10)..100
          /\ products[k].safety_stock < products[k].reorder_point
    /\ gpc = "inventory" => FileRows("products") = products

GenSafetyBelowReorderWitness ==
    /\ gpc = "inventory"
    /\ Len(products) = NumProducts
    /\ \E k \in DOMAIN products :
          products[k].safety_stock = 50 /\ products[k].reorder_point = 60

\* C11: every inventory record the generator holds or has written has
\* 0 <= reserved_quantity <= min(10, quantity_on_hand), and so no more reserved
\* than on hand; and for the quantity drawn in any band (0 included) the range
\* the reserved quantity is drawn from is not empty and lies within that cap.
GenReservedWithinOnHand ==
    /\ \A rows \in {inventory, FileRows("inventory")} :
          \A k \in DOMAIN rows :
              /\ 0 <= rows[k].reserved_quantity
              /\ rows[k].reserved_quantity <= 10
              /\ rows[k].reserved_quantity <= rows[k].quantity_on_hand
    /\ (gpc = "inventory" /\ product_id > 0) =>
          /\ ReservedDraws(qty) # {}
          /\ \A res \in ReservedDraws(qty) :
                0 <= res /\ res <= 10 /\ res <= qty

GenReservedWithinOnHandWitness ==
    /\ gpc = "inventory"
    /\ scenario < 15
    /\ qty = 0
    /\ \E k \in DOMAIN FileRows("inventory") :
          /\ FileRows("inventory")[k].reserved_quantity = 10
          /\ FileRows("inventory")[k].quantity_on_hand >= 10

(***************************************************************************)
(* Properties of the loader.                                               *)
(***************************************************************************)
\* The keys the schema section declares for each table, by the comment that
\* heads each statement (Products, Suppliers, Inventory, Sales transactions,
\* Purchase orders).
DeclaredKeys ==
    [t \in Tables |->
        CreateStatements[CHOOSE k \in DOMAIN LoadOrder : LoadOrder[k] = t].keys]

\* C8: after a complete run of the loader the store holds the five tables with
\* the primary and foreign keys that the schema section declares, suppliers
\* included.
LoaderKeepsDeclaredKeys ==
    lpc = "done" =>
        \A t \in Tables : db[t].exists /\ db[t].keys = DeclaredKeys[t]

\* What the renderer's queries return on the tables T (for a query that
\* sorts, every result the sort allows).
ReportsOf(T) ==
    [alerts |-> AlertsQuery(T),
     abc |-> {AbcQuery(T, r) : r \in AbcRankings(T)},
     turnover |-> {TurnoverQuery(T, o) : o \in TurnoverOrders(T)},
     reorder |-> {ReorderQuery(T, o) : o \in ReorderOrders(T)},
     suppliers |-> {SupplierQuery(T, r) : r \in SupplierRankings(T)},
     summary |-> SummaryQuery(T)]

\* C2: a complete run of the loader that follows a complete run on the same
\* five files leaves every table with the rows (and so the row count) the first
\* run left, which are the rows of the file, and every query of the renderer
\* returns what it returned after the first run.
LoaderIdempotent ==
    (lpc = "done" /\ prevLoad.done /\ prevLoad.files = lastLoad.files) =>
        /\ \A t \in Tables :
              /\ lastLoad.rows[t] = prevLoad.rows[t]
              /\ Len(lastLoad.rows[t]) = Len(prevLoad.rows[t])
              /\ db[t].rows = lastLoad.rows[t]
              /\ db[t].rows = lastLoad.files[t].rows
        /\ ReportsOf(lastLoad.rows) = ReportsOf(prevLoad.rows)

LoaderIdempotentWitness ==
    /\ lpc = "done"
    /\ prevLoad.done
    /\ prevLoad.files = lastLoad.files
    /\ runs = 2
    /\ \A t \in Tables : Len(db[t].rows) > 0

\* The run in progress or just ended started on a store that complete runs
\* had loaded: every run before it completed (the last two complete runs are on
\* record).
ReloadOverLoadedStore ==
    /\ lastLoad.done
    /\ runs = 1 + (IF lastLoad.done THEN 1 ELSE 0) + (IF prevLoad.done THEN 1 ELSE 0)

\* C13: when a reload over a loaded store aborts after k of the five
\* replacements, 0 < k < 5, the step that aborts leaves the first k tables of
\* the order products, suppliers, inventory, sales_transactions,
\* purchase_orders with the rows of the new files and the other tables with
\* the rows the last complete run left.
LoaderPartialReload ==
    [][(lpc = "load" /\ lpc' = "aborted" /\ ReloadOverLoadedStore /\ lstep \in 2..5) =>
          LET order == <<"products", "suppliers", "inventory", "sales_transactions",
                         "purchase_orders">>
          IN  \A i \in 1..5 :
                 /\ db'[order[i]].exists
                 /\ db'[order[i]].rows =
                        IF i < lstep THEN csv[order[i]].rows ELSE lastLoad.rows[order[i]]]_vars

LoaderPartialReloadWitness ==
    /\ lpc = "aborted"
    /\ ReloadOverLoadedStore
    /\ lstep = 3
    /\ db["products"].rows = csv["products"].rows
    /\ db["products"].rows # lastLoad.rows["products"]
    /\ db["inventory"].rows = lastLoad.rows["inventory"]
    /\ db["purchase_orders"].rows = lastLoad.rows["purchase_orders"]
    /\ csv["purchase_orders"].present
    /\ db["purchase_orders"].rows # csv["purchase_orders"].rows

(***************************************************************************)
(* Properties of the renderer.                                             *)
(***************************************************************************)
AlertsDone == rpc \notin {"idle", "alerts"}

AbcDone == AlertsDone /\ rpc # "abc"

TurnoverDone == AbcDone /\ rpc # "turnover"

ReorderDone == rpc \in {"suppliers", "summary", "close", "closed"}

SuppliersDone == rpc \in {"summary", "close", "closed"}

\* The number of products df_alerts gives for a level.
AlertCount(level) ==
    LET R == {k \in DOMAIN df_alerts : df_alerts[k].alert_level = level}
    IN  Sum([k \in R |-> df_alerts[k].product_count], R)

\* C3: every product joined to its inventory record is counted under exactly
\* one level: CRITICAL if on-hand = 0, else URGENT if on-hand < safety_stock,
\* else WARNING if on-hand < reorder_point, else OK.
AlertsByPriority ==
    AlertsDone =>
        LET J == Joined(Store)
            safety(j) == ProductAt(Store, j).safety_stock
            reorder(j) == ProductAt(Store, j).reorder_point
        IN  /\ AlertCount("CRITICAL - Out of Stock")
                  = Cardinality({j \in J : OnHand(Store, j) = 0})
            /\ AlertCount("URGENT - Below Safety")
                  = Cardinality({j \in J : /\ OnHand(Store, j) # 0
                                           /\ OnHand(Store, j) < safety(j)})
            /\ AlertCount("WARNING - Below Reorder")
                  = Cardinality({j \in J : /\ OnHand(Store, j) # 0
                                           /\ OnHand(Store, j) >= safety(j)
                                           /\ OnHand(Store, j) < reorder(j)})
            /\ AlertCount("OK")
                  = Cardinality({j \in J : /\ OnHand(Store, j) # 0
                                           /\ OnHand(Store, j) >= safety(j)
                                           /\ OnHand(Store, j) >= reorder(j)})
            /\ Sum([k \in DOMAIN df_alerts |-> df_alerts[k].product_count],
                   DOMAIN df_alerts) = Cardinality(J)
            /\ \A k, l \in DOMAIN df_alerts :
                  df_alerts[k].alert_level = df_alerts[l].alert_level => k = l

\* A product with nothing on hand and safety stock 0, and one with exactly its
\* safety stock on hand.
AlertsByPriorityWitness ==
    /\ AlertsDone
    /\ \E j \in Joined(Store) :
          OnHand(Store, j) = 0 /\ ProductAt(Store, j).safety_stock = 0
    /\ \E j \in Joined(Store) :
          /\ OnHand(Store, j) = ProductAt(Store, j).safety_stock
          /\ OnHand(Store, j) < ProductAt(Store, j).reorder_point
    /\ df_alerts = << [alert_level |-> "CRITICAL - Out of Stock", product_count |-> 1],
                      [alert_level |-> "WARNING - Below Reorder", product_count |-> 1] >>

AbcValues == [k \in DOMAIN df_abc |-> df_abc[k].inventory_value]

AbcLabels == [k \in DOMAIN df_abc |-> df_abc[k].abc_category]

\* C4: df_abc ranks the products by inventory value, descending; with the
\* running total taken along that ranking, a product is A when its cumulative
\* share of the grand total is <= 80%, B when it is > 80% and <= 95%, C when it
\* is > 95%; products valued 800, 150 and 50 are A, B and C.
AbcByCumulativeShare ==
    AbcDone =>
        LET n == Len(df_abc)
            cum(k) == Sum([i \in 1..k |-> AbcValues[i]], 1..k)
            total == cum(n)
        IN  /\ n = Cardinality(Joined(Store))
            /\ \A j \in Joined(Store) :
                  \E k \in 1..n :
                     /\ df_abc[k].product_id = ProductAt(Store, j).product_id
                     /\ AbcValues[k] = OnHand(Store, j) * ProductAt(Store, j).unit_cost
            /\ \A k \in 1..(n - 1) : AbcValues[k] >= AbcValues[k + 1]
            /\ total > 0 =>
                  \A k \in 1..n :
                     /\ AbcLabels[k] = "A" <=> 100 * cum(k) <= 80 * total
                     /\ AbcLabels[k] = "B" <=>
                           (100 * cum(k) > 80 * total /\ 100 * cum(k) <= 95 * total)
                     /\ AbcLabels[k] = "C" <=> 100 * cum(k) > 95 * total
            /\ AbcValues = <<800, 150, 50>> => AbcLabels = <<"A", "B", "C">>

AbcByCumulativeShareWitness ==
    /\ AbcDone
    /\ AbcValues = <<800, 150, 50>>
    /\ AbcLabels = <<"A", "B", "C">>

\* C5: for a category with sales whose inventory value is 0 the report gives
\* a NULL turnover ratio and NULL days outstanding, and the script does not
\* fail on it.
TurnoverZeroGuard ==
    LET Zero == {k \in DOMAIN df_turnover :
                    /\ Cogs(Store, df_turnover[k].category) > 0
                    /\ InventoryValue(Store, df_turnover[k].category) = 0}
    IN  Zero # {} =>
            /\ \A k \in Zero : /\ df_turnover[k].turnover_ratio = Null
                               /\ df_turnover[k].days_inventory = Null
            /\ rpc # "failed"

\* on-hand / (units sold in the window per day), or 30 without sales in the
\* window
DaysAtDailyRate(T, j) ==
    LET W == WindowSales(T, ProductAt(T, j).product_id)
    IN  IF W = {} THEN <<30, 1>>
        ELSE <<OnHand(T, j) * 90, UnitsSold(T, W)>>

\* C6: the report has one row for every category with a product below its
\* reorder point; its days remaining are the average, over those products, of
\* on-hand divided by the units sold per day in the last 90 days (30 for a
\* product without sales in them).
ReorderDaysAtDailyRate ==
    ReorderDone =>
        /\ {df_reorder[k].category : k \in DOMAIN df_reorder}
              = {ProductAt(Store, j).category :
                    j \in {i \in Joined(Store) :
                              OnHand(Store, i) < ProductAt(Store, i).reorder_point}}
        /\ \A k \in DOMAIN df_reorder :
              LET S == {j \in Joined(Store) :
                           /\ OnHand(Store, j) < ProductAt(Store, j).reorder_point
                           /\ ProductAt(Store, j).category = df_reorder[k].category}
              IN  /\ df_reorder[k].products_needing_reorder = Cardinality(S)
                  /\ df_reorder[k].avg_days_remaining
                        = AvgTenths([j \in S |-> DaysAtDailyRate(Store, j)], S)

\* The purchase orders of the supplier with this id, and those on time.
OrdersFrom(sid) ==
    {k \in DOMAIN Store.purchase_orders : Store.purchase_orders[k].supplier_id = sid}

OnTimeFrom(sid) ==
    {k \in OrdersFrom(sid) :
        Store.purchase_orders[k].actual_delivery_date
            <= Store.purchase_orders[k].expected_delivery_date}

Shown == {df_suppliers[k].supplier_id : k \in DOMAIN df_suppliers}

\* C7: every supplier of the report has at least 3 purchase orders; its
\* percentage is 100 * (orders with actual <= expected) / (orders), to two
\* decimals; the report holds at most 15 suppliers, and a supplier with at
\* least 3 orders is left out only of a full report and has no higher
\* percentage than any supplier in it.
SupplierReport ==
    SuppliersDone =>
        /\ Len(df_suppliers) <= 15
        /\ \A k \in DOMAIN df_suppliers :
              LET n == Cardinality(OrdersFrom(df_suppliers[k].supplier_id))
                  on == Cardinality(OnTimeFrom(df_suppliers[k].supplier_id))
                  off == df_suppliers[k].on_time_pct * n - 10000 * on
              IN  /\ n >= 3
                  /\ df_suppliers[k].total_orders = n
                  /\ 2 * off <= n /\ 2 * off > 0 - n
        /\ \A k, l \in DOMAIN df_suppliers :
              df_suppliers[k].supplier_id = df_suppliers[l].supplier_id => k = l
        /\ \A u \in DOMAIN Store.suppliers :
              LET sid == Store.suppliers[u].supplier_id
                  n == Cardinality(OrdersFrom(sid))
                  on == Cardinality(OnTimeFrom(sid))
              IN  (n >= 3 /\ sid \notin Shown) =>
                      /\ Len(df_suppliers) = 15
                      /\ \A k \in DOMAIN df_suppliers :
                            (20000 * on + n) \div (2 * n) <= df_suppliers[k].on_time_pct

\* A full report that leaves out a supplier with 3 orders whose percentage
\* equals that of a supplier in the report.
SupplierReportWitness ==
    /\ SuppliersDone
    /\ Len(df_suppliers) = 15
    /\ \E u \in DOMAIN Store.suppliers :
          LET sid == Store.suppliers[u].supplier_id IN
          /\ Cardinality(OrdersFrom(sid)) >= 3
          /\ sid \notin Shown
          /\ \E k \in DOMAIN df_suppliers :
                df_suppliers[k].on_time_pct * Cardinality(OrdersFrom(sid))
                    = 10000 * Cardinality(OnTimeFrom(sid))

\* C12: no step of the renderer, from its connection to its close, through the
\* five reports and the summary, changes the five tables or the indexes of the
\* store or the files under data/; what it computes stays in its own frames.
RendererReadOnly == [][db' = db /\ indexes' = indexes /\ csv' = csv]_vars

RendererReadOnlyWitness ==
    /\ rpc = "closed"
    /\ df_alerts # <<>>
    /\ df_abc # <<>>
    /\ df_turnover # <<>>
    /\ df_reorder # <<>>
    /\ summary # <<>>
    /\ db["sales_transactions"].rows # <<>>

AbcClassRank(label) == CASE label = "A" -> 1 [] label = "B" -> 2 [] label = "C" -> 3

\* C14: in the ABC report (values not negative, grand total positive) the rows
\* come by value descending and the labels never step back along them: no B or
\* C above an A, no C above a B; the last row has a cumulative share of 100%
\* and the label C.
AbcLabelsMonotone ==
    (AbcDone /\ df_abc # <<>>) =>
        /\ \A i, j \in DOMAIN df_abc :
              i < j =>
                 /\ df_abc[i].inventory_value >= df_abc[j].inventory_value
                 /\ AbcClassRank(df_abc[i].abc_category)
                        <= AbcClassRank(df_abc[j].abc_category)
        /\ df_abc[Len(df_abc)].cumulative_pct = 10000
        /\ df_abc[Len(df_abc)].abc_category = "C"

\* Class A is empty: the top product alone holds more than 80% of the value.
AbcLabelsMonotoneWitness ==
    /\ AbcDone
    /\ Len(df_abc) = 3
    /\ df_abc[3].inventory_value > 0
    /\ 100 * df_abc[1].inventory_value
          > 80 * (df_abc[1].inventory_value + df_abc[2].inventory_value
                    + df_abc[3].inventory_value)
    /\ \A k \in DOMAIN df_abc : df_abc[k].abc_category # "A"
    /\ df_abc[1].abc_category = "B"


=============================================================================
